---- MODULE Spec2Model ----
(***************************************************************************)
(* File-backed task store of the kanban board backend.                     *)
(*                                                                         *)
(* Python values are represented as follows.                               *)
(*   str            a sequence of one-character strings ("" is << >>)      *)
(*   Optional[T]    None is << >>, a present value v is << v >>            *)
(*   datetime       a natural number (an instant of the wall clock)        *)
(*   dict           a function from key strings to values                  *)
(*   enum members   their string value (TaskStatus and TaskPriority are    *)
(*                  str enums, so a member equals its value)               *)
(* The store is the directory tree tasks_dir/<status>/<task_id>.md: a      *)
(* function from the paths that exist to the contents of the file there.   *)
(***************************************************************************)
EXTENDS Integers, Sequences, FiniteSets, TLC

VARIABLES
    files,      \* path -> file, for the paths that exist under tasks_dir
    clock,      \* the wall clock read by datetime.now(timezone.utc)
    budget,     \* number of calls still to be made
    created,    \* ids returned by create_task and not deleted since
    deleted,    \* ids for which delete_task has returned True
    last,       \* the last call: name, arguments, outcome, store before it
    inflight    \* the calls scheduled on the event loop, and how far each got

vars == <<files, clock, budget, created, deleted, last, inflight>>

----------------------------------------------------------------------------
(* Bounds of the model. *)

MaxOps == 3
MaxClock == 1
MaxDeleteOps == 4

----------------------------------------------------------------------------
(* Python primitives. *)

None == << >>

Some(v) == << v >>

IsNone(o) == Len(o) = 0

WhiteSpace == {" ", "\n", "\t"}

RECURSIVE LStrip(_)
LStrip(s) ==
    IF Len(s) > 0 /\ Head(s) \in WhiteSpace THEN LStrip(Tail(s)) ELSE s

RECURSIVE RStrip(_)
RStrip(s) ==
    IF Len(s) > 0 /\ s[Len(s)] \in WhiteSpace
    THEN RStrip(SubSeq(s, 1, Len(s) - 1))
    ELSE s

\* str.strip()
Strip(s) == LStrip(RStrip(s))

\* needle in haystack, for str
Contains(haystack, needle) ==
    \E i \in 0..(Len(haystack) - Len(needle)) :
        SubSeq(haystack, i + 1, i + Len(needle)) = needle

\* s.startswith(prefix)
StartsWith(s, prefix) ==
    Len(s) >= Len(prefix) /\ SubSeq(s, 1, Len(prefix)) = prefix

\* {**a, **b}: the keys of both, b's value where both have the key
DictMerge(a, b) ==
    [k \in DOMAIN a \cup DOMAIN b |-> IF k \in DOMAIN b THEN b[k] ELSE a[k]]

\* d.get(k, default)
DictGet(d, k, default) == IF k \in DOMAIN d THEN d[k] ELSE default

\* d without key k (dict.pop's effect on d)
DictWithout(d, k) == [j \in DOMAIN d \ {k} |-> d[j]]

\* datetime.isoformat() and datetime.fromisoformat(): the text form of an
\* instant is a different value from the instant itself.
isoformat(t) == <<"iso", t>>

IsIsoString(v) == Len(v) = 2 /\ v[1] = "iso"

fromisoformat(s) == s[2]

----------------------------------------------------------------------------
(* app/models/task.py *)

TaskStatus == <<"todo", "in_progress", "done">>

StatusValues == {TaskStatus[i] : i \in DOMAIN TaskStatus}

TaskPriority == {"low", "medium", "high", "critical"}

TitleMinLength == 1
TitleMaxLength == 200

TaskFields ==
    {"id", "title", "description", "status", "priority", "created_at",
     "updated_at", "due_date", "tags", "assignee", "estimated_hours",
     "actual_hours", "parent_id", "position", "calendar_event_id",
     "telegram_message_id", "content"}

\* fields declared Optional[...] = None
OptionalFields ==
    {"description", "updated_at", "due_date", "assignee", "estimated_hours",
     "actual_hours", "parent_id", "calendar_event_id", "telegram_message_id",
     "content"}

DateFields == {"created_at", "updated_at", "due_date"}

\* Field defaults of Task; created_at's default_factory reads the clock.
TaskDefault(f, utcnow) ==
    CASE f = "status" -> "todo"
      [] f = "priority" -> "medium"
      [] f = "created_at" -> utcnow
      [] f = "tags" -> << >>
      [] f = "position" -> 0
      [] OTHER -> None

\* An Optional[float] with ge=0 accepts None and non-negative numbers.
HoursOk(h) == IsNone(h) \/ h[1] >= 0

\* TaskValid without the bound on the position
TaskValid_any_position(d) ==
    /\ "id" \in DOMAIN d
    /\ "title" \in DOMAIN d
    /\ Len(d.title) >= TitleMinLength
    /\ Len(d.title) <= TitleMaxLength
    /\ ("status" \in DOMAIN d => d.status \in StatusValues)
    /\ ("priority" \in DOMAIN d => d.priority \in TaskPriority)
    /\ ("estimated_hours" \in DOMAIN d => HoursOk(d.estimated_hours))
    /\ ("actual_hours" \in DOMAIN d => HoursOk(d.actual_hours))

\* Whether the Task constructor accepts the dict d: required fields present,
\* Field constraints and enum membership hold. Values are taken to have the declared types.
TaskValid(d) ==
    /\ "id" \in DOMAIN d
    /\ "title" \in DOMAIN d
    /\ Len(d.title) >= TitleMinLength
    /\ Len(d.title) <= TitleMaxLength
    /\ ("status" \in DOMAIN d => d.status \in StatusValues)
    /\ ("priority" \in DOMAIN d => d.priority \in TaskPriority)
    /\ ("estimated_hours" \in DOMAIN d => HoursOk(d.estimated_hours))
    /\ ("actual_hours" \in DOMAIN d => HoursOk(d.actual_hours))
    /\ ("position" \in DOMAIN d => d.position >= 0)

\* The Task built from the dict d: the declared fields, defaults for the
\* missing ones; keys that
\* are not fields are ignored.
Task(d, utcnow) ==
    [f \in TaskFields |-> IF f \in DOMAIN d THEN d[f] ELSE TaskDefault(f, utcnow)]

\* Task.to_frontmatter: every field but content, None values left out,
\* datetimes as ISO text.
to_frontmatter(task) ==
    [f \in {g \in TaskFields \ {"content"} :
                ~(g \in OptionalFields /\ IsNone(task[g]))} |->
        LET v == IF f \in OptionalFields THEN task[f][1] ELSE task[f]
        IN  IF f \in DateFields THEN isoformat(v) ELSE v]

\* Task.from_frontmatter: metadata plus the content, ISO text parsed back to
\* datetimes; the Task is then built from it.
from_frontmatter_data(metadata, content) ==
    LET data == DictMerge(metadata, [content |-> content])
    IN  [f \in DOMAIN data |->
            LET v == IF f \in DateFields /\ IsIsoString(data[f])
                     THEN fromisoformat(data[f])
                     ELSE data[f]
            IN  IF f \in OptionalFields THEN Some(v) ELSE v]

from_frontmatter(metadata, content, utcnow) ==
    Task(from_frontmatter_data(metadata, content), utcnow)

----------------------------------------------------------------------------
(* The frontmatter library, as the service uses it (app/services/task_service.py). *)

\* frontmatter.Post(content, **metadata)
Post(content, metadata) == [content |-> content, metadata |-> metadata]

\* frontmatter.dump(post, path): the text written is the metadata block
\* followed by the content, stripped as a whole, so the content's trailing
\* white space is not written.
frontmatter_dump(post) ==
    [metadata |-> post.metadata, content |-> RStrip(post.content)]

\* frontmatter.load(path): the metadata block, and the rest of the text
\* stripped on both sides.
frontmatter_load(file) == Post(Strip(file.content), file.metadata)

----------------------------------------------------------------------------
(* app/services/task_service.py *)

MdSuffix == <<".md">>

TaskIdPrefix == <<"t", "a", "s", "k", "-">>

ShortUuidLen == 8

\* The exception of a call that raises nothing
NoExc == ""

\* get_task_path with the status directory left out of the path
get_task_path_one_dir(task_id, status) == <<"todo", task_id \o MdSuffix>>

\* self.tasks_dir / status.value / f"{task_id}.md"
get_task_path(task_id, status) == <<status, task_id \o MdSuffix>>

\* WriteFile that makes room in the column: the files of the directory at the
\* position of the written one, or after it, move one position down
WriteFile_shifting(fs, path, file) ==
    [p \in DOMAIN fs \cup {path} |->
        IF p = path THEN file
        ELSE IF p[1] = path[1] /\ "position" \in DOMAIN fs[p].metadata
                /\ "position" \in DOMAIN file.metadata
                /\ fs[p].metadata.position >= file.metadata.position
        THEN [fs[p] EXCEPT !.metadata.position = @ + 1]
        ELSE fs[p]]

\* path written to, or removed from, the store
WriteFile(fs, path, file) ==
    [p \in DOMAIN fs \cup {path} |-> IF p = path THEN file ELSE fs[p]]

\* Unlink that leaves the file where it is
Unlink_kept(fs, path) == fs

Unlink(fs, path) == [p \in DOMAIN fs \ {path} |-> fs[p]]

\* The first status, in the order of the enum, whose directory has the file.
find_task_file(fs, task_id) ==
    LET hits == {i \in DOMAIN TaskStatus :
                    get_task_path(task_id, TaskStatus[i]) \in DOMAIN fs}
        first == CHOOSE i \in hits : \A j \in hits : i <= j
    IN  IF hits = {} THEN None
        ELSE Some(get_task_path(task_id, TaskStatus[first]))

\* generate_task_id without the prefix
generate_task_id_bare(uuid4hex) == SubSeq(uuid4hex, 1, ShortUuidLen)

\* "task-" followed by the first 8 hex digits of a fresh uuid4
generate_task_id(uuid4hex) == TaskIdPrefix \o SubSeq(uuid4hex, 1, ShortUuidLen)

\* s or default, for str
StrOr(s, default) == IF Len(s) = 0 THEN default ELSE s

\* o or default, for Optional[str]
OptStrOr(o, default) == IF IsNone(o) THEN default ELSE StrOr(o[1], default)

\* The templated body; the Russian headings are written in Latin letters.
generate_default_content(task) ==
    <<"#", " ">> \o task.title \o <<"\n", "\n">>
    \o <<"## Opisanie", "\n", "\n">>
    \o OptStrOr(task.description, <<"Opisanie zadachi...">>) \o <<"\n", "\n">>
    \o <<"## Trebovaniya", "\n", "\n">>
    \o <<"- [ ] Trebovanie 1", "\n", "- [ ] Trebovanie 2", "\n", "\n">>
    \o <<"## Primechaniya", "\n", "\n">>
    \o <<"Dopolnitelnye zametki...", "\n", "\n">>

\* What a service call hands back: the store after it, the value returned
\* and the exception raised (NoExc when none).
Outcome(fs, ret, exc) == [files |-> fs, ret |-> ret, exc |-> exc]

\* frontmatter.load followed by Task.from_frontmatter
LoadData(file) ==
    LET post == frontmatter_load(file)
    IN  from_frontmatter_data(post.metadata, post.content)

LoadTask(file, utcnow) == Task(LoadData(file), utcnow)

\* The file written for a task and its body
TaskFile(task, content) == frontmatter_dump(Post(content, to_frontmatter(task)))

create_task(fs, task_data, uuid4hex, now) ==
    LET task_id == generate_task_id(uuid4hex)
        stamped == DictMerge([id |-> task_id, created_at |-> now,
                              updated_at |-> Some(now)], task_data)
        status == DictGet(stamped, "status", "todo")
        task_dict == DictWithout(DictMerge(stamped, [status |-> status]), "content")
        content == DictGet(stamped, "content", None)
    IN  IF status \notin StatusValues THEN Outcome(fs, None, "ValueError")
        ELSE IF ~TaskValid(task_dict) THEN Outcome(fs, None, "ValidationError")
        ELSE LET task == Task(task_dict, now)
                 body == IF IsNone(content) \/ Len(content[1]) = 0
                         THEN generate_default_content(task)
                         ELSE content[1]
                 task_path == get_task_path(task_id, status)
             IN  Outcome(WriteFile(fs, task_path, TaskFile(task, body)),
                         [task EXCEPT !.content = Some(body)], NoExc)

get_task(fs, task_id, now) ==
    LET found == find_task_file(fs, task_id)
    IN  IF IsNone(found) THEN Outcome(fs, None, NoExc)
        ELSE IF ~TaskValid(LoadData(fs[found[1]]))
        THEN Outcome(fs, None, "ValidationError")
        ELSE Outcome(fs, Some(LoadTask(fs[found[1]], now)), NoExc)

\* merge_update that stamps the creation time as well
merge_update_restamped(current_task, update_data, now) ==
    DictMerge(DictMerge(current_task, update_data),
              [updated_at |-> Some(now), created_at |-> now])

\* merge_update that starts from a new task of the same id, title and
\* creation time instead of the task read from the file
merge_update_from_defaults(current_task, update_data, now) ==
    DictMerge(DictMerge([id |-> current_task.id, title |-> current_task.title,
                         status |-> current_task.status,
                         created_at |-> current_task.created_at], update_data),
              [updated_at |-> Some(now)])

\* The fields of the updated task: those of the current one, the update
\* over them, and the time of the update.
merge_update(current_task, update_data, now) ==
    DictMerge(DictMerge(current_task, update_data), [updated_at |-> Some(now)])

\* update_task that removes the old file before it builds the updated task
update_task_unlink_first(fs, task_id, update_data, now) ==
    LET found == find_task_file(fs, task_id)
    IN  IF IsNone(found) THEN Outcome(fs, None, NoExc)
        ELSE IF ~TaskValid(LoadData(fs[found[1]]))
        THEN Outcome(fs, None, "ValidationError")
        ELSE
        LET task_path == found[1]
            current_task == LoadTask(fs[task_path], now)
            has_status == "status" \in DOMAIN update_data
            status_changed == has_status /\ update_data.status # current_task.status
            task_dict == merge_update(current_task, update_data, now)
            new_content == DictGet(update_data, "content", None)
            content == IF ~IsNone(new_content) THEN new_content
                       ELSE current_task.content
            body == IF IsNone(content) THEN << >> ELSE content[1]
            kept == IF status_changed THEN Unlink(fs, task_path) ELSE fs
        IN  IF has_status /\ update_data.status \notin StatusValues
            THEN Outcome(fs, None, "ValueError")
            ELSE IF ~TaskValid(task_dict) THEN Outcome(kept, None, "ValidationError")
            ELSE LET updated_task == Task(task_dict, now)
                     new_path == IF status_changed
                                 THEN get_task_path(task_id, update_data.status)
                                 ELSE task_path
                 IN  Outcome(WriteFile(kept, new_path, TaskFile(updated_task, body)),
                             Some([updated_task EXCEPT !.content = Some(body)]),
                             NoExc)

update_task(fs, task_id, update_data, now) ==
    LET found == find_task_file(fs, task_id)
    IN  IF IsNone(found) THEN Outcome(fs, None, NoExc)
        ELSE IF ~TaskValid(LoadData(fs[found[1]]))
        THEN Outcome(fs, None, "ValidationError")
        ELSE
        LET task_path == found[1]
            current_task == LoadTask(fs[task_path], now)
            has_status == "status" \in DOMAIN update_data
            status_changed == has_status /\ update_data.status # current_task.status
            task_dict == merge_update(current_task, update_data, now)
            new_content == DictGet(update_data, "content", None)
            content == IF ~IsNone(new_content) THEN new_content
                       ELSE current_task.content
            body == IF IsNone(content) THEN << >> ELSE content[1]
        IN  IF has_status /\ update_data.status \notin StatusValues
            THEN Outcome(fs, None, "ValueError")
            ELSE IF ~TaskValid(task_dict) THEN Outcome(fs, None, "ValidationError")
            ELSE LET updated_task == Task(task_dict, now)
                     new_path == IF status_changed
                                 THEN get_task_path(task_id, update_data.status)
                                 ELSE task_path
                     kept == IF status_changed THEN Unlink(fs, task_path) ELSE fs
                 IN  Outcome(WriteFile(kept, new_path, TaskFile(updated_task, body)),
                             Some([updated_task EXCEPT !.content = Some(body)]),
                             NoExc)

\* delete_task that does not look for the file first
delete_task_unchecked(fs, task_id) ==
    Outcome(Unlink(fs, get_task_path(task_id, "todo")), TRUE, NoExc)

delete_task(fs, task_id) ==
    LET found == find_task_file(fs, task_id)
    IN  IF IsNone(found) THEN Outcome(fs, FALSE, NoExc)
        ELSE Outcome(Unlink(fs, found[1]), TRUE, NoExc)

\* move_task that passes the status on and drops the position
move_task_status_only(fs, task_id, new_status, new_position, now) ==
    update_task(fs, task_id, [status |-> new_status], now)

move_task(fs, task_id, new_status, new_position, now) ==
    update_task(fs, task_id, [status |-> new_status, position |-> new_position], now)

\* reorder_one with positions counted from 1
reorder_one_from_one(fs, status, task_id, position, now) ==
    LET task_path == get_task_path(task_id, status)
    IN  IF task_path \notin DOMAIN fs THEN fs
        ELSE LET loaded == LoadTask(fs[task_path], now)
                 task == [loaded EXCEPT !.position = position + 1,
                                        !.updated_at = Some(now)]
             IN  WriteFile(fs, task_path,
                           TaskFile(task, OptStrOr(task.content, << >>)))

\* reorder_one that looks for the task in every status directory
reorder_one_any_dir(fs, status, task_id, position, now) ==
    LET found == find_task_file(fs, task_id)
    IN  IF IsNone(found) THEN fs
        ELSE IF ~TaskValid(LoadData(fs[found[1]])) THEN fs
        ELSE LET loaded == LoadTask(fs[found[1]], now)
                 task == [loaded EXCEPT !.position = position,
                                        !.updated_at = Some(now)]
             IN  WriteFile(fs, found[1],
                           TaskFile(task, OptStrOr(task.content, << >>)))

\* reorder_one that puts every listed task at the top of the column
reorder_one_to_top(fs, status, task_id, position, now) ==
    LET task_path == get_task_path(task_id, status)
    IN  IF task_path \notin DOMAIN fs THEN fs
        ELSE IF ~TaskValid(LoadData(fs[task_path])) THEN fs
        ELSE LET loaded == LoadTask(fs[task_path], now)
                 task == [loaded EXCEPT !.position = 0,
                                        !.updated_at = Some(now)]
             IN  WriteFile(fs, task_path,
                           TaskFile(task, OptStrOr(task.content, << >>)))

\* One iteration of the loop of reorder_tasks: the id and the position
\* enumerate gives it.
reorder_one(fs, status, task_id, position, now) ==
    LET task_path == get_task_path(task_id, status)
    IN  IF task_path \notin DOMAIN fs THEN fs
        ELSE IF ~TaskValid(LoadData(fs[task_path])) THEN fs
        ELSE LET loaded == LoadTask(fs[task_path], now)
                 task == [loaded EXCEPT !.position = position,
                                        !.updated_at = Some(now)]
             IN  WriteFile(fs, task_path,
                           TaskFile(task, OptStrOr(task.content, << >>)))

\* Whether the loop of reorder_tasks rewrites the file of the id: it is in
\* the directory of the status and it loads.
Rewrites(fs, status, task_id) ==
    /\ get_task_path(task_id, status) \in DOMAIN fs
    /\ TaskValid(LoadData(fs[get_task_path(task_id, status)]))

\* The loop of reorder_tasks from the i-th id on. nows are the readings
\* datetime.now(timezone.utc) has yet to give, in order: the loop reads the
\* clock once for each file it rewrites, so the files of one call can carry
\* different instants.
RECURSIVE reorder_from(_, _, _, _, _)
reorder_from(fs, status, task_ids, i, nows) ==
    IF i > Len(task_ids) THEN fs
    ELSE reorder_from(reorder_one(fs, status, task_ids[i], i - 1, nows[1]),
                      status, task_ids, i + 1,
                      IF Rewrites(fs, status, task_ids[i]) THEN Tail(nows)
                      ELSE nows)

\* reorder_tasks that renumbers nothing when a listed file does not load
reorder_tasks_all_or_nothing(fs, status, task_ids, nows) ==
    IF status \notin StatusValues THEN Outcome(fs, FALSE, NoExc)
    ELSE IF \E i \in DOMAIN task_ids :
                /\ get_task_path(task_ids[i], status) \in DOMAIN fs
                /\ ~TaskValid(LoadData(fs[get_task_path(task_ids[i], status)]))
    THEN Outcome(fs, FALSE, NoExc)
    ELSE Outcome(reorder_from(fs, status, task_ids, 1, nows), TRUE, NoExc)

\* reorder_tasks that numbers the listed tasks of the column without gaps
reorder_tasks_compacted(fs, status, task_ids, nows) ==
    LET in_column(t) == get_task_path(t, status) \in DOMAIN fs
    IN  IF status \notin StatusValues THEN Outcome(fs, FALSE, NoExc)
        ELSE Outcome(reorder_from(fs, status, SelectSeq(task_ids, in_column), 1, nows),
                     TRUE, NoExc)

\* The status directories are made by the constructor and never removed, so
\* the directory of a member of TaskStatus exists. nows are the readings of
\* the clock during the call, at least one for each file it rewrites.
reorder_tasks(fs, status, task_ids, nows) ==
    IF status \notin StatusValues THEN Outcome(fs, FALSE, NoExc)
    ELSE Outcome(reorder_from(fs, status, task_ids, 1, nows), TRUE, NoExc)

\* The order in which str compares the status values
StatusRank(status) ==
    CASE status = "done" -> 1
      [] status = "in_progress" -> 2
      [] status = "todo" -> 3

\* SortKeyLeq with the statuses in the order of the enum
SortKeyLeq_enum_order(a, b) ==
    LET rank(s) == CHOOSE i \in DOMAIN TaskStatus : TaskStatus[i] = s
    IN  \/ rank(a.status) < rank(b.status)
        \/ a.status = b.status /\ a.position <= b.position

\* The key of tasks.sort: (t.status.value, t.position)
SortKeyLeq(a, b) ==
    \/ StatusRank(a.status) < StatusRank(b.status)
    \/ a.status = b.status /\ a.position <= b.position

\* str.lower() of one character, over the letters the model's texts use
LowerChar(c) ==
    CASE c = "A" -> "a"
      [] c = "B" -> "b"
      [] OTHER -> c

\* str.lower()
Lower(s) == [i \in DOMAIN s |-> LowerChar(s[i])]

\* Truth value of an Optional[str] or Optional[List[str]] argument: None,
\* the empty string and the empty list are false.
Truthy(o) == ~IsNone(o) /\ Len(o[1]) > 0

\* tag in task.tags
InList(x, l) == \E i \in DOMAIN l : l[i] = x

\* SearchDrops that compares the texts as they are, without lower-casing
SearchDrops_exact_case(task, search) ==
    /\ ~Contains(task.title, search)
    /\ \/ ~Truthy(task.description)
       \/ ~Contains(task.description[1], search)

\* The search test of get_tasks: the task is dropped when the lower-cased
\* text is neither in the lower-cased title nor, when there is a non-empty
\* description, in the lower-cased description.
SearchDrops(task, search) ==
    LET search_lower == Lower(search)
    IN  /\ ~Contains(Lower(task.title), search_lower)
        /\ \/ ~Truthy(task.description)
           \/ ~Contains(Lower(task.description[1]), search_lower)

\* PassesFilters that asks for every tag of the list, not for one of them
PassesFilters_all_tags(task, priority, assignee, tags, search) ==
    /\ ~(Truthy(priority) /\ task.priority # priority[1])
    /\ ~(Truthy(assignee) /\ task.assignee # assignee)
    /\ ~(Truthy(tags) /\ ~\A i \in DOMAIN tags[1] : InList(tags[1][i], task.tags))
    /\ ~(Truthy(search) /\ SearchDrops(task, search[1]))

\* The filters of get_tasks, in the order of the code; a filter whose
\* argument is false is not applied.
PassesFilters(task, priority, assignee, tags, search) ==
    /\ ~(Truthy(priority) /\ task.priority # priority[1])
    /\ ~(Truthy(assignee) /\ task.assignee # assignee)
    /\ ~(Truthy(tags) /\ ~\E i \in DOMAIN tags[1] : InList(tags[1][i], task.tags))
    /\ ~(Truthy(search) /\ SearchDrops(task, search[1]))

\* ListedPaths that scans every status directory whatever the status asked
ListedPaths_every_dir(fs, status, priority, assignee, tags, search, now) ==
    {p \in DOMAIN fs :
        /\ TaskValid(LoadData(fs[p]))
        /\ PassesFilters(LoadTask(fs[p], now), priority, assignee, tags, search)}

\* ListedPaths that gives up the listing at a file that does not load
ListedPaths_stop_at_bad_file(fs, status, priority, assignee, tags, search, now) ==
    LET statuses == IF IsNone(status) THEN StatusValues ELSE {status[1]}
        scanned == {p \in DOMAIN fs : p[1] \in statuses}
    IN  IF \E p \in scanned : ~TaskValid(LoadData(fs[p])) THEN {}
        ELSE {p \in scanned :
                 PassesFilters(LoadTask(fs[p], now), priority, assignee, tags, search)}

\* The files get_tasks appends a task for: those of the scanned directories
\* that load and pass the filters; a file that does not load is skipped.
ListedPaths(fs, status, priority, assignee, tags, search, now) ==
    LET statuses == IF IsNone(status) THEN StatusValues ELSE {status[1]}
    IN  {p \in DOMAIN fs :
            /\ p[1] \in statuses
            /\ TaskValid(LoadData(fs[p]))
            /\ PassesFilters(LoadTask(fs[p], now), priority, assignee, tags, search)}

\* The lists get_tasks can return (status None: every directory): one task
\* per listed file, sorted by the key. The sort is stable and glob yields
\* the files of a directory in no fixed order, so tasks with equal keys come
\* in any order.
get_tasks(fs, status, priority, assignee, tags, search, now) ==
    LET paths == ListedPaths(fs, status, priority, assignee, tags, search, now)
        n == Cardinality(paths)
    IN  {[i \in 1..n |-> LoadTask(fs[order[i]], now)] :
            order \in {o \in [1..n -> paths] :
                /\ \A i, j \in 1..n : i # j => o[i] # o[j]
                /\ \A i, j \in 1..n :
                      i < j => SortKeyLeq(LoadTask(fs[o[i]], now),
                                          LoadTask(fs[o[j]], now))}}

----------------------------------------------------------------------------
(* The inputs of the calls. *)

UuidHexLen == 32

\* The hex form of the uuid4 values the generator draws in the model. The
\* generator is random and create_task does not look at the store before
\* using the id, so a draw can repeat an earlier one.
UuidPool == {[i \in 1..UuidHexLen |-> h] : h \in {"a", "b"}}

\* The ids callers can name: those create_task can have returned
TaskIds == {generate_task_id(u) : u \in UuidPool}

TitleA == <<"A">>
TitleB == <<"B">>

\* A body with white space on both sides
BodyPadded == <<" ", "x", "\n">>
BodyY == <<"y">>

\* The dictionaries handed to the service carry the keys of the request
\* schemas (TaskCreate, TaskUpdate), as the routes pass them; a direct caller
\* may leave keys out.
CreateInputs ==
    { [title |-> TitleA],
      [title |-> TitleB, status |-> "done", content |-> Some(BodyPadded)],
      [title |-> TitleA, status |-> "in_progress", position |-> 1,
       description |-> Some(<<"d">>)],
      [title |-> << >>, status |-> "done"],
      [title |-> TitleA, status |-> "archived"] }

UpdateInputs ==
    { [status |-> "done"],
      [title |-> TitleB, priority |-> "high"],
      [position |-> 2, content |-> Some(BodyY)],
      [title |-> << >>, status |-> "in_progress"] }

MoveInputs ==
    { [status |-> "todo", position |-> 1],
      [status |-> "in_progress", position |-> 0],
      [status |-> "in_progress", position |-> 1],
      [status |-> "done", position |-> 1] }

\* Non-empty lists of distinct ids, in every order
ReorderInputs ==
    UNION {{l \in [1..n -> TaskIds] : \A i, j \in 1..n : i # j => l[i] # l[j]} :
              n \in 1..Cardinality(TaskIds)}

----------------------------------------------------------------------------
(* The calls. *)

\* The coroutines that can be scheduled at the same time
Slots == {"first", "second"}

\* A slot with no call scheduled
Idle ==
    [pc |-> "idle", op |-> "", id |-> None, data |-> None, ret |-> None,
     exc |-> NoExc, pre |-> << >>, post |-> << >>, now |-> 0, order |-> 0,
     overlapped |-> FALSE]

NoRequests == [r \in Slots |-> Idle]

NoCall ==
    [op |-> "init", id |-> None, data |-> None, ret |-> None, exc |-> NoExc,
     pre |-> << >>, now |-> 0, gone |-> FALSE, http |-> 0]

Call(op, id, data, out) ==
    [op |-> op, id |-> id, data |-> data, ret |-> out.ret, exc |-> out.exc,
     pre |-> files, now |-> clock, gone |-> id \in deleted, http |-> 0]

Init ==
    /\ files = << >>
    /\ clock = 0
    /\ budget = MaxOps
    /\ created = {}
    /\ deleted = {}
    /\ last = NoCall
    /\ inflight = NoRequests

\* The readings the clock can give during one call that asks for up to n of
\* them: the first is the instant the call starts at, and the clock does
\* not run backwards.
ClockReadings(from, n) ==
    {s \in [1..n -> from..MaxClock] :
        /\ n > 0 => s[1] = from
        /\ \A i \in 1..(n - 1) : s[i] <= s[i + 1]}

\* The same reading n times: a clock that does not move during the call
Steady(now, n) == [i \in 1..n |-> now]

\* The clock when a call that was given the readings nows returns
ClockAfter(now, nows) == IF Len(nows) = 0 THEN now ELSE nows[Len(nows)]

\* Time passes between calls.
Tick ==
    /\ clock < MaxClock
    /\ clock' = clock + 1
    /\ UNCHANGED <<files, budget, created, deleted, last, inflight>>

\* The id of the call is the id of the task it returns, which is the id of
\* the payload when the payload has one; a call that raises has the id it
\* generated.
CreateTask(task_data, uuid4hex) ==
    LET out == create_task(files, task_data, uuid4hex, clock)
        task_id == IF out.exc = NoExc THEN out.ret.id
                   ELSE generate_task_id(uuid4hex)
    IN  /\ budget > 0
        /\ budget' = budget - 1
        /\ files' = out.files
        /\ created' = IF out.exc = NoExc THEN created \cup {task_id} ELSE created
        /\ last' = Call("create_task", task_id, task_data, out)
        /\ UNCHANGED <<clock, deleted, inflight>>

GetTask(task_id) ==
    LET out == get_task(files, task_id, clock)
    IN  /\ budget > 0
        /\ budget' = budget - 1
        /\ files' = out.files
        /\ last' = Call("get_task", task_id, None, out)
        /\ UNCHANGED <<clock, created, deleted, inflight>>

UpdateTask(task_id, update_data) ==
    LET out == update_task(files, task_id, update_data, clock)
    IN  /\ budget > 0
        /\ budget' = budget - 1
        /\ files' = out.files
        /\ last' = Call("update_task", task_id, update_data, out)
        /\ UNCHANGED <<clock, created, deleted, inflight>>

DeleteTask(task_id) ==
    LET out == delete_task(files, task_id)
    IN  /\ budget > 0
        /\ budget' = budget - 1
        /\ files' = out.files
        /\ created' = IF out.ret THEN created \ {task_id} ELSE created
        /\ deleted' = IF out.ret THEN deleted \cup {task_id} ELSE deleted
        /\ last' = Call("delete_task", task_id, None, out)
        /\ UNCHANGED <<clock, inflight>>

MoveTask(task_id, move_data) ==
    LET out == move_task(files, task_id, move_data.status, move_data.position,
                         clock)
    IN  /\ budget > 0
        /\ budget' = budget - 1
        /\ files' = out.files
        /\ last' = Call("move_task", task_id, move_data, out)
        /\ UNCHANGED <<clock, created, deleted, inflight>>

\* The clock moves on while the call runs.
ReorderTasks(status, task_ids) ==
    /\ budget > 0
    /\ \E nows \in ClockReadings(clock, Len(task_ids)) :
          LET out == reorder_tasks(files, status, task_ids, nows)
          IN  /\ files' = out.files
              /\ clock' = ClockAfter(clock, nows)
              /\ last' = Call("reorder_tasks", None,
                              [status |-> status, task_ids |-> task_ids], out)
    /\ budget' = budget - 1
    /\ UNCHANGED <<created, deleted, inflight>>

Next ==
    \/ Tick
    \/ \E task_data \in CreateInputs, u \in UuidPool : CreateTask(task_data, u)
    \/ \E task_id \in TaskIds : GetTask(task_id)
    \/ \E task_id \in TaskIds, update_data \in UpdateInputs :
          UpdateTask(task_id, update_data)
    \/ \E task_id \in TaskIds : DeleteTask(task_id)
    \/ \E task_id \in TaskIds, move_data \in MoveInputs :
          MoveTask(task_id, move_data)
    \/ \E s \in StatusValues, task_ids \in ReorderInputs : ReorderTasks(s, task_ids)

Spec == Init /\ [][Next]_vars

----------------------------------------------------------------------------
(* app/schemas/task.py: the request bodies. A JSON body is a dict whose    *)
(* values are all Optional: null is None, a value v is Some(v); a key that *)
(* is left out takes the field's default.                                  *)

TaskCreateFields ==
    {"title", "description", "priority", "due_date", "tags", "assignee",
     "estimated_hours", "parent_id", "position", "status", "content"}

TaskUpdateFields ==
    {"title", "description", "status", "priority", "due_date", "tags",
     "assignee", "estimated_hours", "actual_hours", "parent_id", "position",
     "content"}

TaskCreateDefault(f) ==
    CASE f = "priority" -> "medium"
      [] f = "tags" -> << >>
      [] f = "position" -> 0
      [] f = "status" -> "todo"
      [] OTHER -> None

\* body[k] if the key is given and not null
Given(body, k) == k \in DOMAIN body /\ ~IsNone(body[k])

\* A field that is not Optional rejects null.
NotNull(body, k) == k \in DOMAIN body => ~IsNone(body[k])

\* TitleOk without the upper limit
TitleOk_no_max(title) == Len(title) >= TitleMinLength

TitleOk(title) == Len(title) >= TitleMinLength /\ Len(title) <= TitleMaxLength

\* The body validates as a TaskCreate
TaskCreateValid(body) ==
    /\ Given(body, "title") /\ TitleOk(body.title[1])
    /\ NotNull(body, "priority")
    /\ (Given(body, "priority") => body.priority[1] \in TaskPriority)
    /\ NotNull(body, "status")
    /\ (Given(body, "status") => body.status[1] \in StatusValues)
    /\ NotNull(body, "position")
    /\ (Given(body, "position") => body.position[1] >= 0)
    /\ NotNull(body, "tags")
    /\ ("estimated_hours" \in DOMAIN body => HoursOk(body.estimated_hours))

\* The value the service sees for a field: Optional for the fields Task
\* declares Optional, the bare value for the others.
ServiceValue(f, o) == IF f \in OptionalFields THEN o ELSE o[1]

\* task_data.model_dump() of a TaskCreate
TaskCreateDump(body) ==
    [f \in TaskCreateFields |->
        IF f \in DOMAIN body THEN ServiceValue(f, body[f])
        ELSE TaskCreateDefault(f)]

\* The body validates as a TaskUpdate: every field is Optional
TaskUpdateValid(body) ==
    /\ (Given(body, "title") => TitleOk(body.title[1]))
    /\ (Given(body, "status") => body.status[1] \in StatusValues)
    /\ (Given(body, "priority") => body.priority[1] \in TaskPriority)
    /\ ("estimated_hours" \in DOMAIN body => HoursOk(body.estimated_hours))
    /\ ("actual_hours" \in DOMAIN body => HoursOk(body.actual_hours))
    /\ (Given(body, "position") => body.position[1] >= 0)

\* update_data.model_dump() of a TaskUpdate, without the None values
TaskUpdateDump(body) ==
    [f \in {g \in TaskUpdateFields : Given(body, g)} |-> ServiceValue(f, body[f])]

\* The body validates as a TaskMove
TaskMoveValid(body) ==
    /\ Given(body, "status") /\ body.status[1] \in StatusValues
    /\ NotNull(body, "position")
    /\ (Given(body, "position") => body.position[1] >= 0)

TaskMoveDump(body) ==
    [status |-> body.status[1],
     position |-> IF "position" \in DOMAIN body THEN body.position[1] ELSE 0]

----------------------------------------------------------------------------
(* app/routers/tasks.py: what a request does to the store, what the        *)
(* service returned (None when it was not called) and the status code.     *)
(* The TaskResponse built from a task accepts every task the service      *)
(* returns, so it is left out.                                             *)

HTTP_OK == 200
HTTP_CREATED == 201
HTTP_NO_CONTENT == 204
HTTP_BAD_REQUEST == 400
HTTP_NOT_FOUND == 404
HTTP_UNPROCESSABLE == 422
HTTP_SERVER_ERROR == 500

Response(out, http) ==
    [files |-> out.files, ret |-> out.ret, exc |-> out.exc, http |-> http]

\* The request never reached the service.
Refused(fs, http) == [files |-> fs, ret |-> None, exc |-> NoExc, http |-> http]

\* A handler that lets an exception of the service through answers 500.
Answer(out, http) ==
    IF out.exc # NoExc THEN Response(out, HTTP_SERVER_ERROR) ELSE Response(out, http)

\* POST /
route_create_task(fs, body, uuid4hex, now) ==
    IF ~TaskCreateValid(body) THEN Refused(fs, HTTP_UNPROCESSABLE)
    ELSE Answer(create_task(fs, TaskCreateDump(body), uuid4hex, now), HTTP_CREATED)

\* GET /{task_id}
route_get_task(fs, task_id, now) ==
    LET out == get_task(fs, task_id, now)
    IN  IF out.exc = NoExc /\ IsNone(out.ret) THEN Response(out, HTTP_NOT_FOUND)
        ELSE Answer(out, HTTP_OK)

\* PATCH /{task_id}
route_update_task(fs, task_id, body, now) ==
    IF ~TaskUpdateValid(body) THEN Refused(fs, HTTP_UNPROCESSABLE)
    ELSE IF DOMAIN TaskUpdateDump(body) = {} THEN Refused(fs, HTTP_BAD_REQUEST)
    ELSE LET out == update_task(fs, task_id, TaskUpdateDump(body), now)
         IN  IF out.exc = NoExc /\ IsNone(out.ret)
             THEN Response(out, HTTP_NOT_FOUND)
             ELSE Answer(out, HTTP_OK)

\* DELETE /{task_id}
route_delete_task(fs, task_id) ==
    LET out == delete_task(fs, task_id)
    IN  IF ~out.ret THEN Response(out, HTTP_NOT_FOUND)
        ELSE Response(out, HTTP_NO_CONTENT)

\* POST /{task_id}/move
route_move_task(fs, task_id, body, now) ==
    IF ~TaskMoveValid(body) THEN Refused(fs, HTTP_UNPROCESSABLE)
    ELSE LET move_data == TaskMoveDump(body)
             out == move_task(fs, task_id, move_data.status, move_data.position, now)
         IN  IF out.exc = NoExc /\ IsNone(out.ret)
             THEN Response(out, HTTP_NOT_FOUND)
             ELSE Answer(out, HTTP_OK)

\* POST /reorder/{status}
route_reorder_tasks(fs, status, task_ids, nows) ==
    IF status \notin StatusValues THEN Refused(fs, HTTP_UNPROCESSABLE)
    ELSE LET out == reorder_tasks(fs, status, task_ids, nows)
         IN  IF ~out.ret THEN Response(out, HTTP_BAD_REQUEST)
             ELSE Response(out, HTTP_OK)

----------------------------------------------------------------------------
(* The requests. *)

LongTitle == [i \in 1..(TitleMaxLength + 1) |-> "x"]

CreateBodies ==
    { [title |-> Some(TitleA)],
      [title |-> Some(TitleB), status |-> Some("done"),
       content |-> Some(BodyPadded), estimated_hours |-> Some(0)],
      [title |-> Some(<< >>)],
      [title |-> Some(LongTitle)],
      [title |-> Some(TitleA), priority |-> Some("urgent")],
      [title |-> Some(TitleA), estimated_hours |-> Some(-5)] }

UpdateBodies ==
    { [description |-> None],
      [status |-> Some("done")],
      [title |-> Some(TitleB), position |-> Some(1)],
      [title |-> Some(<< >>), status |-> Some("done")] }

MoveBodies ==
    { [status |-> Some("done"), position |-> Some(1)],
      [status |-> Some("todo")],
      [status |-> Some("todo"), position |-> Some(-1)] }

Request(op, id, data, res) ==
    [op |-> op, id |-> id, data |-> data, ret |-> res.ret, exc |-> res.exc,
     pre |-> files, now |-> clock, gone |-> id \in deleted, http |-> res.http]

RouteCreateTask(body, uuid4hex) ==
    LET res == route_create_task(files, body, uuid4hex, clock)
        task_id == generate_task_id(uuid4hex)
    IN  /\ budget > 0
        /\ budget' = budget - 1
        /\ files' = res.files
        /\ created' = IF res.http = HTTP_CREATED THEN created \cup {task_id}
                      ELSE created
        /\ last' = Request("route_create_task", task_id, body, res)
        /\ UNCHANGED <<clock, deleted, inflight>>

RouteGetTask(task_id) ==
    LET res == route_get_task(files, task_id, clock)
    IN  /\ budget > 0
        /\ budget' = budget - 1
        /\ files' = res.files
        /\ last' = Request("route_get_task", task_id, None, res)
        /\ UNCHANGED <<clock, created, deleted, inflight>>

RouteUpdateTask(task_id, body) ==
    LET res == route_update_task(files, task_id, body, clock)
    IN  /\ budget > 0
        /\ budget' = budget - 1
        /\ files' = res.files
        /\ last' = Request("route_update_task", task_id, body, res)
        /\ UNCHANGED <<clock, created, deleted, inflight>>

RouteDeleteTask(task_id) ==
    LET res == route_delete_task(files, task_id)
    IN  /\ budget > 0
        /\ budget' = budget - 1
        /\ files' = res.files
        /\ created' = IF res.ret THEN created \ {task_id} ELSE created
        /\ deleted' = IF res.ret THEN deleted \cup {task_id} ELSE deleted
        /\ last' = Request("route_delete_task", task_id, None, res)
        /\ UNCHANGED <<clock, inflight>>

RouteMoveTask(task_id, body) ==
    LET res == route_move_task(files, task_id, body, clock)
    IN  /\ budget > 0
        /\ budget' = budget - 1
        /\ files' = res.files
        /\ last' = Request("route_move_task", task_id, body, res)
        /\ UNCHANGED <<clock, created, deleted, inflight>>

RouteReorderTasks(status, task_ids) ==
    /\ budget > 0
    /\ \E nows \in ClockReadings(clock, Len(task_ids)) :
          LET res == route_reorder_tasks(files, status, task_ids, nows)
          IN  /\ files' = res.files
              /\ clock' = ClockAfter(clock, nows)
              /\ last' = Request("route_reorder_tasks", None,
                                 [status |-> status, task_ids |-> task_ids], res)
    /\ budget' = budget - 1
    /\ UNCHANGED <<created, deleted, inflight>>

NextHttp ==
    \/ Tick
    \/ \E body \in CreateBodies, u \in UuidPool : RouteCreateTask(body, u)
    \/ \E task_id \in TaskIds : RouteGetTask(task_id)
    \/ \E task_id \in TaskIds, body \in UpdateBodies : RouteUpdateTask(task_id, body)
    \/ \E task_id \in TaskIds : RouteDeleteTask(task_id)
    \/ \E task_id \in TaskIds, body \in MoveBodies : RouteMoveTask(task_id, body)
    \/ \E s \in StatusValues, task_ids \in ReorderInputs :
          RouteReorderTasks(s, task_ids)

\* The application serving requests
SpecHttp == Init /\ [][NextHttp]_vars

----------------------------------------------------------------------------
(* Creating, reading and deleting only, over one call more. *)

DeleteCreateInputs ==
    { [title |-> TitleA],
      [title |-> TitleB, status |-> "done"] }

InitDelete ==
    /\ files = << >>
    /\ clock = 0
    /\ budget = MaxDeleteOps
    /\ created = {}
    /\ deleted = {}
    /\ last = NoCall
    /\ inflight = NoRequests

NextDelete ==
    \/ \E task_data \in DeleteCreateInputs, u \in UuidPool :
          CreateTask(task_data, u)
    \/ \E task_id \in TaskIds : GetTask(task_id)
    \/ \E task_id \in TaskIds : DeleteTask(task_id)

SpecDelete == InitDelete /\ [][NextDelete]_vars

----------------------------------------------------------------------------
(* What the claims speak of. *)

\* The task id a file name stands for
IdOfName(name) == SubSeq(name, 1, Len(name) - 1)

\* The paths that hold a file of the task id
PathsOf(fs, task_id) == {p \in DOMAIN fs : IdOfName(p[2]) = task_id}

\* The ids of the files in the directory of a status
ColumnIds(fs, status) == {IdOfName(p[2]) : p \in {q \in DOMAIN fs : q[1] = status}}

\* The file the service takes for the task: directories are searched in the
\* order todo, in_progress, done.
FileOf(fs, task_id) ==
    LET name == task_id \o MdSuffix
    IN  IF <<"todo", name>> \in DOMAIN fs THEN <<"todo", name>>
        ELSE IF <<"in_progress", name>> \in DOMAIN fs THEN <<"in_progress", name>>
        ELSE <<"done", name>>

Stored(fs, task_id) == PathsOf(fs, task_id) # {}

\* The last call was a service call op that returned normally
Returned(op) == last.op = op /\ last.exc = NoExc

\* The last call was an update_task that found the task and wrote it
Updated == Returned("update_task") /\ ~IsNone(last.ret)

\* The last update_task named a status other than the one the task had
StatusChanged ==
    /\ Updated
    /\ "status" \in DOMAIN last.data
    /\ last.data.status # FileOf(last.pre, last.id)[1]

----------------------------------------------------------------------------
\* C1: after any sequence of create_task, update_task, move_task,
\* reorder_tasks and delete_task calls, the status in the metadata of every
\* stored task file is the name of the status directory that holds the file.
C1_StatusMatchesDirectory ==
    \A p \in DOMAIN files : files[p].metadata.status = p[1]

\* An update has just moved a task to another status while another file is
\* stored too.
C1_Witness ==
    /\ StatusChanged
    /\ Cardinality(DOMAIN files) >= 2

\* C2: every task id has a file in at most one status directory, and every
\* task that was created and not deleted has exactly one file.
C2_OneFilePerTask ==
    \A task_id \in TaskIds :
        /\ Cardinality(PathsOf(files, task_id)) <= 1
        /\ (task_id \in created => Cardinality(PathsOf(files, task_id)) = 1)

\* C3: update_task(id, {status: s2}) on a task stored with status s # s2
\* removes the task's file from the s directory and creates it in the s2
\* directory, under the same id; when the status is not changed the file is
\* overwritten in place. No other path appears or disappears.
C3_UpdateMovesFile ==
    Updated =>
        LET old == FileOf(last.pre, last.id)
            new == <<last.data.status, old[2]>>
        IN  /\ last.ret[1].id = last.id
            /\ IF StatusChanged
               THEN /\ old \notin DOMAIN files
                    /\ new \in DOMAIN files
                    /\ DOMAIN files = (DOMAIN last.pre \ {old}) \cup {new}
                    /\ files[new].metadata.id = last.id
                    /\ files[new].metadata.status = last.data.status
               ELSE /\ DOMAIN files = DOMAIN last.pre
                    /\ files[old].metadata.id = last.id
                    /\ files[old].metadata.status = old[1]
                    /\ files[old].metadata.updated_at = isoformat(last.now)

\* An update has just changed the status of a stored task.
C3_Witness == StatusChanged /\ last.pre # files

----------------------------------------------------------------------------
\* C4: after delete_task(id) has returned True, every later get_task(id)
\* returns None and a later delete_task(id) returns False.
C4_DeletedStaysAbsent ==
    /\ (Returned("get_task") /\ last.gone => IsNone(last.ret))
    /\ (Returned("delete_task") /\ last.gone => last.ret = FALSE)

----------------------------------------------------------------------------
\* ids lists every member of S exactly once
IsPermutationOf(ids, S) ==
    /\ Len(ids) = Cardinality(S)
    /\ {ids[i] : i \in DOMAIN ids} = S

\* The last call was reorder_tasks over a permutation of a non-empty column
ReorderedColumn ==
    /\ last.op = "reorder_tasks"
    /\ ColumnIds(last.pre, last.data.status) # {}
    /\ IsPermutationOf(last.data.task_ids, ColumnIds(last.pre, last.data.status))

\* C5: reorder_tasks(status, ids) with ids a permutation of the tasks stored
\* in the column returns True, gives every task the position of its index in
\* ids, and the listing of the column is then in the order of ids.
C5_ReorderPermutation ==
    ReorderedColumn =>
        LET status == last.data.status
            ids == last.data.task_ids
            listings == get_tasks(files, Some(status), None, None, None, None, clock)
        IN  /\ last.exc = NoExc
            /\ last.ret = TRUE
            /\ \A i \in DOMAIN ids :
                  files[<<status, ids[i] \o MdSuffix>>].metadata.position = i - 1
            /\ listings # {}
            /\ \A l \in listings :
                  /\ Len(l) = Len(ids)
                  /\ \A i \in DOMAIN ids : l[i].id = ids[i] /\ l[i].position = i - 1

\* A column of two tasks has just been reordered.
C5_Witness ==
    /\ ReorderedColumn
    /\ Len(last.data.task_ids) >= 2
    /\ files # last.pre

----------------------------------------------------------------------------
\* The body a create_task call was given, if it was given one
SuppliedBody(task_data) ==
    IF "content" \in DOMAIN task_data THEN task_data.content ELSE None

\* C6: get_task(create_task(fields).id) returns a task whose id and metadata
\* fields equal those of the task create_task returned, and whose body
\* contains the supplied body verbatim.
C6_CreateGetRoundTrip ==
    Returned("create_task") =>
        LET got == get_task(files, last.ret.id, clock)
        IN  /\ got.exc = NoExc
            /\ ~IsNone(got.ret)
            /\ \A f \in TaskFields \ {"content"} : got.ret[1][f] = last.ret[f]
            /\ (~IsNone(SuppliedBody(last.data)) =>
                   Contains(got.ret[1].content[1], SuppliedBody(last.data)[1]))

----------------------------------------------------------------------------
\* C9: update_task(id, partial) changes only the fields named in partial and
\* updated_at: every other field, the body included, is the same in the task
\* returned and in the task stored afterwards as in the task stored before;
\* the named fields of the returned task have the values given.
C9_UpdateFrame ==
    Updated =>
        LET old == FileOf(last.pre, last.id)
            new == IF StatusChanged THEN <<last.data.status, old[2]>> ELSE old
            before == LoadTask(last.pre[old], last.now)
            after == LoadTask(files[new], last.now)
            named == DOMAIN last.data \cup {"updated_at"}
        IN  /\ \A f \in TaskFields \ named :
                  last.ret[1][f] = before[f] /\ after[f] = before[f]
            /\ \A f \in DOMAIN last.data : last.ret[1][f] = last.data[f]
            /\ last.ret[1].updated_at = Some(last.now)
            /\ after.updated_at = Some(last.now)

\* A task created earlier, in another status than todo and with another
\* position than 0, has just been given a new title.
C9_Witness ==
    /\ Updated
    /\ DOMAIN last.data = {"title", "priority"}
    /\ last.ret[1].created_at < last.now
    /\ last.ret[1].status # "todo"
    /\ last.ret[1].position # 0
    /\ last.ret[1].title # LoadTask(last.pre[FileOf(last.pre, last.id)], last.now).title

----------------------------------------------------------------------------
\* C10: create_task stores the new task under the status given, under todo
\* when none is given; the task returned has a generated id that starts with
\* "task-", created_at and updated_at set to the same instant, and a
\* non-empty body: the supplied one, or the templated one.
C10_CreateDefaults ==
    Returned("create_task") =>
        LET task == last.ret
            status == IF "status" \in DOMAIN last.data THEN last.data.status
                      ELSE "todo"
            path == <<status, task.id \o MdSuffix>>
            body == SuppliedBody(last.data)
            supplied == ~IsNone(body) /\ Len(body[1]) > 0
        IN  /\ task.status = status
            /\ path \in DOMAIN files
            /\ files[path].metadata.id = task.id
            /\ files[path].metadata.status = status
            /\ files[path].metadata.title = last.data.title
            /\ StartsWith(task.id, <<"t", "a", "s", "k", "-">>)
            /\ Len(task.id) > 5
            /\ task.created_at = last.now
            /\ task.updated_at = Some(task.created_at)
            /\ ~IsNone(task.content)
            /\ Len(task.content[1]) > 0
            /\ (supplied => task.content[1] = body[1])
            /\ (~supplied => StartsWith(task.content[1], <<"#", " ">> \o task.title))

\* A task has just been created with no status given, in a store that is
\* not empty.
C10_Witness ==
    /\ Returned("create_task")
    /\ "status" \notin DOMAIN last.data
    /\ last.pre # << >>
    /\ last.now > 0

----------------------------------------------------------------------------
\* The routes that name a task id
IdRoutes ==
    {"route_get_task", "route_update_task", "route_delete_task", "route_move_task"}

\* The last request named an id with no file in any status directory and
\* its body passed the validation of its schema.
AbsentIdRequested ==
    /\ last.op \in IdRoutes
    /\ ~Stored(last.pre, last.id)
    /\ last.http # 422

\* The service returned the absent value without raising, the store is as
\* it was, and the answer is 404.
AnsweredNotFound ==
    /\ last.exc = NoExc
    /\ IF last.op = "route_delete_task" THEN last.ret = FALSE ELSE IsNone(last.ret)
    /\ files = last.pre
    /\ last.http = 404

\* Every value of the body is null, so the update names no field.
NamesNoField(body) == \A k \in DOMAIN body : IsNone(body[k])

\* C7 as stated: for an id that has no file in any status directory the
\* service returns None (False for delete_task) without raising, the store
\* is left unchanged and the route answers 404.
C7_AbsentIdAnswers404 == AbsentIdRequested => AnsweredNotFound

\* C7 as amended: the same, except that a PATCH whose body names no field
\* is answered 400 before the id is looked up; the store is left unchanged
\* then too.
C7_AbsentIdAnswers404OrNoFields ==
    AbsentIdRequested =>
        IF last.op = "route_update_task" /\ NamesNoField(last.data)
        THEN last.http = 400 /\ last.exc = NoExc /\ files = last.pre
        ELSE AnsweredNotFound

\* A PATCH that names a field has just asked for an absent id while another
\* task is stored.
C7_Witness ==
    /\ AbsentIdRequested
    /\ last.op = "route_update_task"
    /\ ~NamesNoField(last.data)
    /\ last.pre # << >>

----------------------------------------------------------------------------
\* The create request has an empty title, a title of more than 200
\* characters, a priority outside the four values or negative hours.
BadCreateBody(body) ==
    \/ Given(body, "title") /\ Len(body.title[1]) = 0
    \/ Given(body, "title") /\ Len(body.title[1]) > 200
    \/ Given(body, "priority")
          /\ body.priority[1] \notin {"low", "medium", "high", "critical"}
    \/ Given(body, "estimated_hours") /\ body.estimated_hours[1] < 0

\* C8: such a create request is answered 422 and no task file is written:
\* the store is the same before and after.
C8_InvalidCreateRejected ==
    (last.op = "route_create_task" /\ BadCreateBody(last.data)) =>
        /\ last.http = 422
        /\ files = last.pre

\* A create request with an over-long title has just been made to a store
\* that holds a task.
C8_Witness ==
    /\ last.op = "route_create_task"
    /\ Given(last.data, "title")
    /\ Len(last.data.title[1]) > 200
    /\ last.pre # << >>

----------------------------------------------------------------------------
\* C11: the id create_task generates differs from the id of every task
\* stored at the time, so create_task neither overwrites the file of a
\* stored task nor writes a second file for an id stored under another
\* status: the path it writes is new and no path of that id existed.
C11_GeneratedIdIsUnused ==
    Returned("create_task") =>
        /\ ~Stored(last.pre, last.id)
        /\ \A p \in DOMAIN last.pre : p \in DOMAIN files /\ files[p] = last.pre[p]
        /\ Cardinality(PathsOf(files, last.id)) = 1

----------------------------------------------------------------------------
(* The service called with dictionaries that carry an "id" key. The       *)
(* service takes any Dict[str, Any]; the Task constructor accepts the key. *)

\* An id a caller puts in a payload
PayloadId == <<"t", "a", "s", "k", "-", "z">>

PayloadCreateInputs ==
    { [title |-> TitleA],
      [title |-> TitleA, id |-> PayloadId],
      [title |-> TitleB, status |-> "done", id |-> PayloadId] }

PayloadUpdateInputs ==
    { [title |-> TitleB],
      [id |-> PayloadId],
      [status |-> "in_progress", id |-> PayloadId] }

NextPayload ==
    \/ Tick
    \/ \E task_data \in PayloadCreateInputs, u \in UuidPool : CreateTask(task_data, u)
    \/ \E task_id \in TaskIds, update_data \in PayloadUpdateInputs :
          UpdateTask(task_id, update_data)
    \/ \E task_id \in TaskIds, move_data \in MoveInputs :
          MoveTask(task_id, move_data)
    \/ \E s \in StatusValues, task_ids \in ReorderInputs : ReorderTasks(s, task_ids)

SpecPayload == Init /\ [][NextPayload]_vars

\* The ids the file names of a store stand for
StoredIds(fs) == {IdOfName(p[2]) : p \in DOMAIN fs}

\* C12: a task's id is immutable: for every payload they accept,
\* create_task, update_task, move_task and reorder_tasks leave the id in the
\* stored metadata equal to the id in the file name, and an update or move
\* leaves the task to be found under the id it was found under.
C12_IdIsImmutable ==
    /\ \A p \in DOMAIN files : files[p].metadata.id = IdOfName(p[2])
    /\ ((last.op \in {"update_task", "move_task"} /\ last.exc = NoExc
            /\ ~IsNone(last.ret))
          => /\ Stored(files, last.id)
             /\ StoredIds(files) = StoredIds(last.pre)
             /\ last.ret[1].id = last.id)

----------------------------------------------------------------------------
(* Listing: get_tasks and GET / over stores the service has written. *)

MaxListOps == 4

TitleAb == <<"A", "b">>
TitleX == <<"x">>

TagOne == <<"t", "1">>
TagTwo == <<"t", "2">>
TagThree == <<"t", "3">>
\* A tag and a body that read like the searched text
TagAb == <<"a", "b">>
BodyAb == <<"a", "b">>

UserU == <<"u">>

\* Three draws of the generator, for columns of more than two tasks
ListUuidPool == {[i \in 1..UuidHexLen |-> h] : h \in {"a", "b", "c"}}

ListTaskIds == {generate_task_id(u) : u \in ListUuidPool}

ListCreateInputs ==
    { [title |-> TitleAb, tags |-> <<TagOne>>, position |-> 1],
      [title |-> TitleB, description |-> Some(<<"a", "B">>),
       tags |-> <<TagOne, TagTwo>>, priority |-> "high",
       assignee |-> Some(UserU), status |-> "done"],
      [title |-> TitleX, tags |-> <<TagAb>>, content |-> Some(BodyAb)],
      [title |-> TitleB, status |-> "in_progress", position |-> 2] }

\* The arguments of get_tasks
Filters(status, priority, assignee, tags, search) ==
    [status |-> status, priority |-> priority, assignee |-> assignee,
     tags |-> tags, search |-> search]

ListInputs ==
    { Filters(None, None, None, None, None),
      Filters(Some("todo"), None, None, None, None),
      Filters(Some("done"), None, None, Some(<<TagTwo, TagThree>>), None),
      Filters(None, None, None, Some(<<TagThree, TagOne>>), None),
      Filters(None, None, None, None, Some(<<"A", "B">>)),
      Filters(Some("todo"), None, None, None, Some(<<"b">>)),
      Filters(None, Some("high"), Some(UserU), None, None),
      Filters(None, Some(<< >>), None, Some(<< >>), Some(<< >>)) }

\* GET /: the tasks the service returns and their number
route_get_tasks(fs, query, now) ==
    {Response(Outcome(fs, [tasks |-> tasks, total |-> Len(tasks)], NoExc), HTTP_OK) :
        tasks \in get_tasks(fs, query.status, query.priority, query.assignee,
                            query.tags, query.search, now)}

InitList ==
    /\ files = << >>
    /\ clock = 0
    /\ budget = MaxListOps
    /\ created = {}
    /\ deleted = {}
    /\ last = NoCall
    /\ inflight = NoRequests

GetTasks(filters) ==
    /\ budget > 0
    /\ budget' = budget - 1
    /\ \E tasks \in get_tasks(files, filters.status, filters.priority,
                              filters.assignee, filters.tags, filters.search, clock) :
          last' = Call("get_tasks", None, filters, Outcome(files, tasks, NoExc))
    /\ UNCHANGED <<files, clock, created, deleted, inflight>>

RouteGetTasks(query) ==
    /\ budget > 0
    /\ budget' = budget - 1
    /\ \E res \in route_get_tasks(files, query, clock) :
          last' = Request("route_get_tasks", None, query, res)
    /\ UNCHANGED <<files, clock, created, deleted, inflight>>

NextList ==
    \/ \E task_data \in ListCreateInputs, u \in ListUuidPool : CreateTask(task_data, u)
    \/ \E task_id \in ListTaskIds : DeleteTask(task_id)
    \/ \E filters \in ListInputs : GetTasks(filters)
    \/ \E query \in ListInputs : RouteGetTasks(query)

SpecList == InitList /\ [][NextList]_vars

----------------------------------------------------------------------------
(* What the listing claims speak of: the stored metadata, not the loaded   *)
(* task.                                                                   *)

\* The last call was get_tasks
Listed == last.op = "get_tasks" /\ last.exc = NoExc

\* At least one tag of the list is among the stored tags
TagsMatch(meta, tags) ==
    \E i \in DOMAIN tags : \E j \in DOMAIN meta.tags : tags[i] = meta.tags[j]

\* The lower-cased text is in the lower-cased stored title or description
SearchMatches(meta, q) ==
    \/ Contains(Lower(meta.title), Lower(q))
    \/ "description" \in DOMAIN meta /\ Contains(Lower(meta.description), Lower(q))

\* The stored metadata passes every filter given (non-empty) but the status
MetaMatches(meta, f) ==
    /\ (Truthy(f.priority) => meta.priority = f.priority[1])
    /\ (Truthy(f.assignee) =>
          "assignee" \in DOMAIN meta /\ meta.assignee = f.assignee[1])
    /\ (Truthy(f.tags) => TagsMatch(meta, f.tags[1]))
    /\ (Truthy(f.search) => SearchMatches(meta, f.search[1]))

\* The files the tasks of a returned list stand for
PathsListed(tasks) ==
    {<<tasks[i].status, tasks[i].id \o MdSuffix>> : i \in DOMAIN tasks}

\* C13: get_tasks(status=s) returns exactly the stored tasks whose status is
\* s and that pass the other filters: every returned task has status s,
\* every such stored task is returned, once, and no task of another status
\* is.
C13_StatusFilterExact ==
    (Listed /\ ~IsNone(last.data.status)) =>
        LET s == last.data.status[1]
            want == {p \in DOMAIN files :
                        /\ files[p].metadata.status = s
                        /\ MetaMatches(files[p].metadata, last.data)}
        IN  /\ \A i \in DOMAIN last.ret : last.ret[i].status = s
            /\ PathsListed(last.ret) = want
            /\ Len(last.ret) = Cardinality(want)

\* A status listing has just returned two tasks while a task of another
\* status is stored.
C13_Witness ==
    /\ Listed
    /\ ~IsNone(last.data.status)
    /\ Len(last.ret) >= 2
    /\ \E p \in DOMAIN files : p[1] # last.data.status[1]

----------------------------------------------------------------------------
\* The files of the directories the last get_tasks scanned whose stored
\* metadata passes every filter given
Matching ==
    {p \in DOMAIN files :
        /\ (~IsNone(last.data.status) => p[1] = last.data.status[1])
        /\ MetaMatches(files[p].metadata, last.data)}

\* C14: get_tasks(tags=T) with a non-empty T returns a stored task if and
\* only if at least one tag of T is among the task's tags and the task
\* passes the other filters.
C14_TagsAnyOf ==
    (Listed /\ Truthy(last.data.tags)) =>
        /\ PathsListed(last.ret) = Matching
        /\ \A i \in DOMAIN last.ret : TagsMatch(last.ret[i], last.data.tags[1])
        /\ \A p \in DOMAIN files \ PathsListed(last.ret) :
              \/ ~TagsMatch(files[p].metadata, last.data.tags[1])
              \/ ~MetaMatches(files[p].metadata, [last.data EXCEPT !.tags = None])
              \/ (~IsNone(last.data.status) /\ p[1] # last.data.status[1])

\* A listing by two tags has just returned a task that has one of them and
\* not the other, and left out a stored task that has neither.
C14_Witness ==
    /\ Listed
    /\ Truthy(last.data.tags)
    /\ \E i \in DOMAIN last.ret : \E t \in DOMAIN last.data.tags[1] :
          ~InList(last.data.tags[1][t], last.ret[i].tags)
    /\ \E p \in DOMAIN files : ~TagsMatch(files[p].metadata, last.data.tags[1])

----------------------------------------------------------------------------
\* C15: get_tasks(search=q) with a non-empty q returns a stored task if and
\* only if lower-cased q is in the lower-cased title or the lower-cased
\* description (and the task passes the other filters); a task without a
\* description is matched on its title only; the body and the tags are not
\* searched.
C15_SearchTitleOrDescription ==
    (Listed /\ Truthy(last.data.search)) =>
        LET q == Lower(last.data.search[1])
        IN  /\ PathsListed(last.ret) = Matching
            /\ \A i \in DOMAIN last.ret :
                  \/ Contains(Lower(last.ret[i].title), q)
                  \/ /\ ~IsNone(last.ret[i].description)
                     /\ Contains(Lower(last.ret[i].description[1]), q)
            /\ \A p \in Matching :
                  "description" \notin DOMAIN files[p].metadata
                      => Contains(Lower(files[p].metadata.title), q)

\* A search in capitals has just returned a task matched by its description
\* only and left out a stored task whose body and tag hold the text.
C15_Witness ==
    /\ Listed
    /\ Truthy(last.data.search)
    /\ last.data.search[1] # Lower(last.data.search[1])
    /\ \E i \in DOMAIN last.ret :
          ~Contains(Lower(last.ret[i].title), Lower(last.data.search[1]))
    /\ \E p \in DOMAIN files \ PathsListed(last.ret) :
          /\ Contains(Lower(files[p].content), Lower(last.data.search[1]))
          /\ InList(Lower(last.data.search[1]), files[p].metadata.tags)

----------------------------------------------------------------------------
\* The order of the status values as strings
StatusBefore(s, t) ==
    <<s, t>> \in {<<"done", "in_progress">>, <<"done", "todo">>,
                  <<"in_progress", "todo">>}

\* C16: the list get_tasks returns is sorted by (status, position): of two
\* tasks of different statuses the one whose status string is smaller comes
\* first, so the tasks of one status are contiguous, and of two tasks of one
\* status the earlier has no greater position.
C16_SortedByStatusPosition ==
    Listed =>
        \A i, j \in DOMAIN last.ret :
            i < j =>
                IF last.ret[i].status = last.ret[j].status
                THEN last.ret[i].position <= last.ret[j].position
                ELSE StatusBefore(last.ret[i].status, last.ret[j].status)

\* A listing has just returned tasks of two statuses, two of them of one
\* status with different positions.
C16_Witness ==
    /\ Listed
    /\ \E i, j \in DOMAIN last.ret :
          /\ last.ret[i].status = last.ret[j].status
          /\ last.ret[i].position < last.ret[j].position
    /\ Cardinality({last.ret[i].status : i \in DOMAIN last.ret}) >= 2

----------------------------------------------------------------------------
\* The last get_tasks was given no filter
Unfiltered ==
    /\ IsNone(last.data.status)
    /\ ~Truthy(last.data.priority)
    /\ ~Truthy(last.data.assignee)
    /\ ~Truthy(last.data.tags)
    /\ ~Truthy(last.data.search)

\* The number of tasks get_tasks() returns for a store
ListedCount(fs) ==
    Cardinality(ListedPaths(fs, None, None, None, None, None, clock))

\* C17: get_tasks with no filters returns every stored task whose file
\* parses, each exactly once; every successful create_task, while nothing
\* has been deleted, adds one task to what it returns, so that after n
\* creates it returns those n tasks; and the total of the HTTP list response
\* is the number of tasks in it.
C17_ListReturnsEveryTask ==
    /\ (Listed /\ Unfiltered) =>
          /\ PathsListed(last.ret) =
                {p \in DOMAIN files : TaskValid(LoadData(files[p]))}
          /\ Len(last.ret) = Cardinality(PathsListed(last.ret))
    /\ (Returned("create_task") /\ deleted = {}) =>
          ListedCount(files) = ListedCount(last.pre) + 1
    /\ (last.op = "route_get_tasks") =>
          /\ last.http = 200
          /\ last.ret.total = Len(last.ret.tasks)

----------------------------------------------------------------------------
(* Files the service cannot load. The store is a directory of markdown     *)
(* files that people and other tools edit, so a file whose text has no      *)
(* front matter, or whose metadata the Task model rejects, can come to be   *)
(* in a status directory.                                                   *)

MaxForeignOps == 4

\* A text with no front matter block: it loads with empty metadata, and the
\* Task constructor then misses id and title.
NoFrontMatter == [metadata |-> << >>, content |-> <<"x">>]

\* Front matter with a priority that is none of the four values
BadPriority(task_id, status) ==
    [metadata |-> [id |-> task_id, title |-> TitleA, status |-> status,
                   priority |-> "urgent", position |-> 0,
                   created_at |-> isoformat(0), tags |-> << >>],
     content |-> <<"x">>]

ForeignFiles(task_id, status) == {NoFrontMatter, BadPriority(task_id, status)}

ForeignCreateInputs ==
    { [title |-> TitleA, position |-> 7],
      [title |-> TitleB, status |-> "done"] }

ForeignListInputs ==
    { Filters(None, None, None, None, None),
      Filters(Some("todo"), None, None, None, Some(<<"a">>)) }

\* The orders a caller gives for a column of three
ForeignReorderInputs ==
    {l \in [1..3 -> ListTaskIds] : \A i, j \in 1..3 : i # j => l[i] # l[j]}

InitForeign ==
    /\ files = << >>
    /\ clock = 0
    /\ budget = MaxForeignOps
    /\ created = {}
    /\ deleted = {}
    /\ last = NoCall
    /\ inflight = NoRequests

\* Somebody writes such a file into the todo directory, over the task file
\* of that name when there is one.
ForeignWrite(task_id, file) ==
    /\ budget > 0
    /\ budget' = budget - 1
    /\ files' = WriteFile(files, get_task_path(task_id, "todo"), file)
    /\ last' = Call("foreign_write", task_id, file, Outcome(files', None, NoExc))
    /\ UNCHANGED <<clock, created, deleted, inflight>>

NextForeign ==
    \/ \E task_data \in ForeignCreateInputs, u \in ListUuidPool :
          CreateTask(task_data, u)
    \/ \E task_id \in ListTaskIds :
          \E file \in ForeignFiles(task_id, "todo") : ForeignWrite(task_id, file)
    \/ \E filters \in ForeignListInputs : GetTasks(filters)
    \/ \E task_ids \in ForeignReorderInputs : ReorderTasks("todo", task_ids)

SpecForeign == InitForeign /\ [][NextForeign]_vars

\* The file loads: its metadata make a Task
Parses(file) == TaskValid(LoadData(file))

\* The files of the directories the last get_tasks scanned
Scanned ==
    {p \in DOMAIN files : ~IsNone(last.data.status) => p[1] = last.data.status[1]}

\* C18: when a file of a scanned directory cannot be parsed or validated,
\* get_tasks does not fail: it skips that file, returns every other stored
\* task that matches the filters, and changes no file.
C18_ListSkipsBadFile ==
    (Listed /\ \E p \in Scanned : ~Parses(files[p])) =>
        /\ last.exc = NoExc
        /\ files = last.pre
        /\ PathsListed(last.ret) =
              {p \in Scanned :
                  Parses(files[p]) /\ MetaMatches(files[p].metadata, last.data)}
        /\ Len(last.ret) = Cardinality(PathsListed(last.ret))

\* A listing has just returned a task from a directory that also holds a
\* file that does not parse.
C18_Witness ==
    /\ Listed
    /\ \E p \in Scanned : ~Parses(files[p])
    /\ Len(last.ret) >= 1
    /\ \E i \in DOMAIN last.ret : last.ret[i].status = "todo"

----------------------------------------------------------------------------
\* The ids of the last reorder_tasks that have no file in its status directory
Skipped ==
    {last.data.task_ids[i] : i \in DOMAIN last.data.task_ids} \
        ColumnIds(last.pre, last.data.status)

\* C19: in reorder_tasks(status, ids) an id with no file in the status
\* directory, absent everywhere or stored under another status, is skipped
\* without error: no file is created for it, a file of that id under
\* another status is left as it was, and reorder_tasks returns True.
C19_ReorderSkipsAbsent ==
    (last.op = "reorder_tasks" /\ Skipped # {}) =>
        /\ last.exc = NoExc
        /\ last.ret = TRUE
        /\ DOMAIN files = DOMAIN last.pre
        /\ \A task_id \in Skipped :
              \A p \in PathsOf(last.pre, task_id) : files[p] = last.pre[p]

\* A reorder has just renumbered a task of the column while another listed
\* id was stored under another status.
C19_Witness ==
    /\ last.op = "reorder_tasks"
    /\ files # last.pre
    /\ \E task_id \in Skipped : Stored(last.pre, task_id)

----------------------------------------------------------------------------
\* The indexes of the last reorder_tasks whose id has a file in the column,
\* and among them those whose file does not load
InColumn ==
    {i \in DOMAIN last.data.task_ids :
        get_task_path(last.data.task_ids[i], last.data.status) \in DOMAIN last.pre}

Failing ==
    {i \in InColumn :
        ~Parses(last.pre[get_task_path(last.data.task_ids[i], last.data.status)])}

\* C20: when one listed task fails to load part-way through reorder_tasks,
\* the listed tasks of the column before it keep their new positions, those
\* after it are still given the position of their index, and reorder_tasks
\* returns True.
C20_ReorderNoRollback ==
    (last.op = "reorder_tasks" /\ Failing # {}) =>
        /\ last.exc = NoExc
        /\ last.ret = TRUE
        /\ \A i \in InColumn \ Failing :
              LET p == get_task_path(last.data.task_ids[i], last.data.status)
              IN  /\ p \in DOMAIN files
                  /\ files[p].metadata.position = i - 1

\* A reorder has just renumbered a task listed before and a task listed
\* after one whose file does not load.
C20_Witness ==
    /\ last.op = "reorder_tasks"
    /\ \E i, j, k \in DOMAIN last.data.task_ids :
          /\ i < j /\ j < k
          /\ j \in Failing
          /\ i \in InColumn \ Failing
          /\ k \in InColumn \ Failing
          /\ LET p == get_task_path(last.data.task_ids[k], last.data.status)
             IN  files[p].metadata.position # last.pre[p].metadata.position

----------------------------------------------------------------------------
\* C21: move_task(id, s, p) returns what update_task(id, {status: s,
\* position: p}) returns and leaves the store that call leaves: for a
\* stored task there is afterwards a file of the id under s with position
\* p, written in place when s is the status it was found under; for an
\* absent id it returns None.
C21_MoveIsUpdate ==
    last.op = "move_task" =>
        LET s == last.data.status
            p == last.data.position
            asUpdate == update_task(last.pre, last.id,
                                    [status |-> s, position |-> p], last.now)
            target == get_task_path(last.id, s)
        IN  /\ files = asUpdate.files
            /\ last.ret = asUpdate.ret
            /\ last.exc = asUpdate.exc
            /\ Stored(last.pre, last.id) =>
                  /\ last.exc = NoExc
                  /\ ~IsNone(last.ret)
                  /\ last.ret[1].status = s
                  /\ last.ret[1].position = p
                  /\ target \in DOMAIN files
                  /\ files[target].metadata.status = s
                  /\ files[target].metadata.position = p
                  /\ FileOf(last.pre, last.id)[1] = s
                        => DOMAIN files = DOMAIN last.pre
            /\ ~Stored(last.pre, last.id) =>
                  /\ IsNone(last.ret)
                  /\ last.exc = NoExc
                  /\ files = last.pre

\* A move has just taken a task to another status and another position.
C21_Witness ==
    /\ last.op = "move_task"
    /\ Stored(last.pre, last.id)
    /\ FileOf(last.pre, last.id)[1] # last.data.status
    /\ last.pre[FileOf(last.pre, last.id)].metadata.position # last.data.position

----------------------------------------------------------------------------
\* C24: every successful update_task returns and stores an updated_at
\* strictly later than the updated_at the task had before the call, and not
\* earlier than its created_at.
C24_UpdatedAtAdvances ==
    Updated =>
        LET before == LoadTask(last.pre[FileOf(last.pre, last.id)], last.now)
            after == last.ret[1]
            stored == LoadTask(files[get_task_path(last.id, after.status)], last.now)
        IN  /\ ~IsNone(after.updated_at)
            /\ stored.updated_at = after.updated_at
            /\ ~IsNone(before.updated_at) => after.updated_at[1] > before.updated_at[1]
            /\ after.updated_at[1] >= after.created_at

----------------------------------------------------------------------------
(* Calls that carry values the Task model refuses. *)

\* Creations, one of them with a negative position
InvalidCreateInputs ==
    { [title |-> TitleA],
      [title |-> TitleB, status |-> "in_progress", position |-> 1],
      [title |-> TitleA, status |-> "done", position |-> -1] }

\* Updates: two that validate, then an invalid status string, an empty and
\* an over-long title, negative hours and a negative position, the last four
\* together with a valid change of status.
InvalidUpdateInputs ==
    { [status |-> "done"],
      [position |-> 2, estimated_hours |-> Some(0)],
      [status |-> "archived", title |-> TitleB],
      [title |-> << >>, status |-> "done"],
      [title |-> LongTitle, status |-> "in_progress"],
      [actual_hours |-> Some(-1), status |-> "done"],
      [position |-> -1, status |-> "todo"],
      [position |-> -1] }

\* Moves: one that validates, one to a status that does not exist and two
\* to a negative position
InvalidMoveInputs ==
    { [status |-> "done", position |-> 3],
      [status |-> "archived", position |-> 0],
      [status |-> "done", position |-> -1],
      [status |-> "todo", position |-> -1] }

NextInvalid ==
    \/ \E task_data \in InvalidCreateInputs, u \in UuidPool : CreateTask(task_data, u)
    \/ \E task_id \in TaskIds, update_data \in InvalidUpdateInputs :
          UpdateTask(task_id, update_data)
    \/ \E task_id \in TaskIds, move_data \in InvalidMoveInputs :
          MoveTask(task_id, move_data)
    \/ \E s \in StatusValues, task_ids \in ReorderInputs : ReorderTasks(s, task_ids)

SpecInvalid == Init /\ [][NextInvalid]_vars

\* The last call was a create_task, update_task or move_task
Writes == last.op \in {"create_task", "update_task", "move_task"}

\* The last call supplied a negative position
NegativePosition ==
    /\ Writes
    /\ "position" \in DOMAIN last.data
    /\ last.data.position < 0

\* C25: after any sequence of create_task, update_task, move_task and
\* reorder_tasks every stored task has an integer position that is at least
\* 0; a create, update or move that supplies a negative position for a task
\* it finds is rejected and stores nothing.
C25_PositionNeverNegative ==
    /\ \A p \in DOMAIN files :
          /\ "position" \in DOMAIN files[p].metadata
          /\ files[p].metadata.position \in Nat
    /\ (NegativePosition /\ (last.op = "create_task" \/ Stored(last.pre, last.id))) =>
          /\ last.exc = "ValidationError"
          /\ IsNone(last.ret)
          /\ files = last.pre

\* A negative position was supplied for a stored task, together with a
\* status the task does not have.
C25_Witness ==
    /\ NegativePosition
    /\ last.op \in {"update_task", "move_task"}
    /\ Stored(last.pre, last.id)
    /\ "status" \in DOMAIN last.data
    /\ last.data.status # FileOf(last.pre, last.id)[1]
    /\ \E p \in DOMAIN files : files[p].metadata.position > 0

\* The last update_task or move_task carried a value the model refuses
InvalidValue ==
    /\ last.op \in {"update_task", "move_task"}
    /\ \/ "status" \in DOMAIN last.data /\ last.data.status \notin StatusValues
       \/ "title" \in DOMAIN last.data
            /\ (Len(last.data.title) < TitleMinLength
                \/ Len(last.data.title) > TitleMaxLength)
       \/ \E h \in {"estimated_hours", "actual_hours"} :
            h \in DOMAIN last.data /\ ~IsNone(last.data[h]) /\ last.data[h][1] < 0
       \/ "position" \in DOMAIN last.data /\ last.data.position < 0

\* C26: an update_task or move_task that carries an invalid value (a status
\* string that is no status, an empty or over-long title, negative hours or
\* a negative position) for a stored task raises before touching the store:
\* every file is where it was with the contents it had, also when the
\* payload carries a valid change of status together with the invalid value.
C26_InvalidUpdateLeavesStore ==
    (InvalidValue /\ Stored(last.pre, last.id)) =>
        /\ last.exc \in {"ValueError", "ValidationError"}
        /\ IsNone(last.ret)
        /\ files = last.pre

\* An invalid value came together with a valid status the task does not have.
C26_Witness ==
    /\ InvalidValue
    /\ Stored(last.pre, last.id)
    /\ "status" \in DOMAIN last.data
    /\ last.data.status \in StatusValues
    /\ last.data.status # FileOf(last.pre, last.id)[1]
    /\ "title" \in DOMAIN last.data
    /\ Len(last.data.title) > TitleMaxLength

\* The files of the tasks other than task_id
OtherFiles(fs, task_id) ==
    [p \in {q \in DOMAIN fs : IdOfName(q[2]) # task_id} |-> fs[p]]

\* The tasks of other ids that stand in the column of the task the last
\* call returned, at the position it returned
SamePosition ==
    {p \in DOMAIN files :
        /\ IdOfName(p[2]) # last.id
        /\ p[1] = last.ret[1].status
        /\ files[p].metadata.position = last.ret[1].position}

\* C28: update_task, move_task and delete_task on one task leave the file
\* of every other task as it was, so a move into a column shifts no
\* position there.
C28_OtherTasksUntouched ==
    last.op \in {"update_task", "move_task", "delete_task"} =>
        OtherFiles(files, last.id) = OtherFiles(last.pre, last.id)

\* A move has put a task into another column at the position a task of that
\* column has, and that task still has it.
C28_Witness ==
    /\ Returned("move_task")
    /\ ~IsNone(last.ret)
    /\ FileOf(last.pre, last.id)[1] # last.data.status
    /\ SamePosition # {}
    /\ \A p \in SamePosition : p \in DOMAIN last.pre /\ last.pre[p] = files[p]

\* C29: the set of stored task ids changes only through create_task, which
\* adds exactly one id, and through a delete_task that returns True, which
\* removes exactly the id it was given; get_task, update_task, move_task and
\* reorder_tasks, and a create or delete that fails, neither add nor remove
\* a task.
C29_IdsChangeOnlyByCreateDelete ==
    LET before == StoredIds(last.pre)
        after == StoredIds(files)
    IN  /\ Returned("create_task") =>
              /\ last.id \notin before
              /\ after = before \cup {last.id}
        /\ (last.op = "delete_task" /\ last.ret = TRUE) =>
              /\ last.id \in before
              /\ after = before \ {last.id}
        /\ (/\ last.op \in {"create_task", "get_task", "update_task", "delete_task",
                            "move_task", "reorder_tasks"}
            /\ ~Returned("create_task")
            /\ ~(last.op = "delete_task" /\ last.ret = TRUE)) =>
              after = before

----------------------------------------------------------------------------
(* reorder_tasks with any list of ids. *)

MaxReorderOps == 3

MaxIdListLen == 3

\* The lists a caller can give: ids in any number and order, repeated or not
AnyIdLists ==
    UNION {[1..n -> ListTaskIds] : n \in 1..MaxIdListLen}

\* The service is constructed at the last instant of the model's clock, so
\* every reading of a call gives that instant: the positions a reorder gives
\* do not depend on the clock.
InitReorder ==
    /\ files = << >>
    /\ clock = MaxClock
    /\ budget = MaxReorderOps
    /\ created = {}
    /\ deleted = {}
    /\ last = NoCall
    /\ inflight = NoRequests

\* Tasks for the column todo, at a position no reorder of the model gives
ReorderCreateInputs == { [title |-> TitleA, position |-> 7] }

NextReorder ==
    \/ \E task_data \in ReorderCreateInputs, u \in ListUuidPool :
          CreateTask(task_data, u)
    \/ \E task_ids \in AnyIdLists : ReorderTasks("todo", task_ids)

SpecReorder == InitReorder /\ [][NextReorder]_vars

\* The ids of the list of the last reorder_tasks
Listed_ids == {last.data.task_ids[i] : i \in DOMAIN last.data.task_ids}

\* The index enumerate gives the last occurrence of task_id in the list
LastIndex(task_ids, task_id) ==
    (CHOOSE i \in DOMAIN task_ids :
        /\ task_ids[i] = task_id
        /\ \A j \in DOMAIN task_ids : task_ids[j] = task_id => j <= i) - 1

\* The position stored in each file
Positions(fs) == [p \in DOMAIN fs |-> fs[p].metadata.position]

\* C30: for any list of ids (ids with no file in the column, repeated ids,
\* or a part of the column) reorder_tasks gives every task of the column
\* that occurs in the list the index of its last occurrence as position,
\* without closing gaps, and leaves the tasks of the column that are not in
\* the list as they were; the same reorder applied again gives the same
\* positions.
C30_ReorderArbitraryList ==
    Returned("reorder_tasks") =>
        LET s == last.data.status
            ids == last.data.task_ids
            again == reorder_tasks(files, s, ids, Steady(clock, Len(ids)))
        IN  /\ last.ret = TRUE
            /\ DOMAIN files = DOMAIN last.pre
            /\ \A task_id \in ColumnIds(last.pre, s) :
                  LET p == get_task_path(task_id, s)
                  IN  IF task_id \in Listed_ids
                      THEN files[p].metadata.position = LastIndex(ids, task_id)
                      ELSE files[p] = last.pre[p]
            /\ again.ret = TRUE
            /\ Positions(again.files) = Positions(files)

\* The list repeats an id of the column after an id that has no file there,
\* and leaves a task of the column out.
C30_Witness ==
    /\ Returned("reorder_tasks")
    /\ \E i, j, k \in DOMAIN last.data.task_ids :
          /\ i < j /\ j < k
          /\ last.data.task_ids[i] = last.data.task_ids[k]
          /\ last.data.task_ids[i] \in ColumnIds(last.pre, last.data.status)
          /\ last.data.task_ids[j] \notin ColumnIds(last.pre, last.data.status)
    /\ ColumnIds(last.pre, last.data.status) \ Listed_ids # {}
    /\ files # last.pre

----------------------------------------------------------------------------
(* Calls made at the same time. Every method of TaskService is a coroutine *)
(* with no suspension point: the file operations are synchronous, and the  *)
(* only await, that of update_task in move_task, runs the awaited          *)
(* coroutine at once. A call that has been scheduled therefore runs from   *)
(* its first statement to its return before the event loop runs another,   *)
(* and two calls made at the same time run one after the other, in either  *)
(* order.                                                                  *)

MaxConcurrentOps == 4

ConcurrentCreateInputs ==
    { [title |-> TitleA],
      [title |-> TitleA, status |-> "done"] }

\* A call to schedule
Scheduled(op, id, data) == [op |-> op, id |-> id, data |-> data]

ConcurrentCalls ==
    {Scheduled("update_task", task_id, update_data) :
        task_id \in TaskIds,
        update_data \in {[title |-> TitleB, priority |-> "high"],
                         [position |-> 2, content |-> Some(BodyY)],
                         [priority |-> "low", status |-> "done"]}}
    \cup {Scheduled("move_task", task_id, [status |-> "done", position |-> 1]) :
             task_id \in TaskIds}
    \cup {Scheduled("reorder_tasks", None, [status |-> "todo", task_ids |-> l]) :
             l \in {m \in ReorderInputs : Len(m) = Cardinality(TaskIds)}}
    \cup {Scheduled("delete_task", task_id, None) : task_id \in TaskIds}

\* The readings of the clock a scheduled call can ask for
Reads(call) ==
    IF call.op = "reorder_tasks" THEN Len(call.data.task_ids) ELSE 1

\* The coroutine of a scheduled call, run to its return, with the readings
\* the clock gives it
Dispatch(fs, call, nows) ==
    CASE call.op = "update_task" -> update_task(fs, call.id, call.data, nows[1])
      [] call.op = "move_task" ->
            move_task(fs, call.id, call.data.status, call.data.position, nows[1])
      [] call.op = "reorder_tasks" ->
            reorder_tasks(fs, call.data.status, call.data.task_ids, nows)
      [] call.op = "delete_task" -> delete_task(fs, call.id)

\* The service is constructed at the last instant of the model's clock: the
\* calls that overlap read the same instant.
InitConcurrent ==
    /\ files = << >>
    /\ clock = MaxClock
    /\ budget = MaxConcurrentOps
    /\ created = {}
    /\ deleted = {}
    /\ last = NoCall
    /\ inflight = NoRequests

\* A call is made: its coroutine is scheduled and has not run yet.
Receive(r, call) ==
    /\ budget > 0
    /\ inflight[r].pc = "idle"
    /\ budget' = budget - 1
    /\ inflight' = [inflight EXCEPT ![r] =
                       [Idle EXCEPT !.pc = "received", !.op = call.op,
                                    !.id = call.id, !.data = call.data]]
    /\ UNCHANGED <<files, clock, created, deleted, last>>

\* The event loop runs a scheduled coroutine, from its first statement to
\* its return. It overlapped the other call when that one was scheduled and
\* had not run, or had run while this one was scheduled.
Handle(r) ==
    LET call == inflight[r]
        others == Slots \ {r}
    IN  /\ call.pc = "received"
        /\ \E nows \in ClockReadings(clock, Reads(call)) :
              LET out == Dispatch(files, call, nows)
                  removed == call.op = "delete_task" /\ out.ret
              IN  /\ files' = out.files
                  /\ clock' = ClockAfter(clock, nows)
                  /\ created' = IF removed THEN created \ {call.id} ELSE created
                  /\ deleted' = IF removed THEN deleted \cup {call.id} ELSE deleted
                  /\ last' = Call(call.op, call.id, call.data, out)
                  /\ inflight' = [inflight EXCEPT ![r] =
                        [call EXCEPT
                            !.pc = "done", !.ret = out.ret, !.exc = out.exc,
                            !.pre = files, !.post = out.files, !.now = clock,
                            !.order = 1 + Cardinality({q \in others :
                                                         inflight[q].pc = "done"}),
                            !.overlapped = \E q \in others :
                                \/ inflight[q].pc = "received"
                                \/ inflight[q].pc = "done" /\ inflight[q].overlapped]]
        /\ UNCHANGED budget

NextConcurrent ==
    \/ \E task_data \in ConcurrentCreateInputs, u \in UuidPool :
          CreateTask(task_data, u)
    \/ \E r \in Slots, call \in ConcurrentCalls : Receive(r, call)
    \/ \E r \in Slots : Handle(r)

SpecConcurrent == InitConcurrent /\ [][NextConcurrent]_vars

\* Both calls have returned and each was scheduled before the other ran.
Raced ==
    \A r \in Slots : inflight[r].pc = "done" /\ inflight[r].overlapped

\* The call that ran first and the one that ran last
Earlier == inflight[CHOOSE r \in Slots : inflight[r].order = 1]
Later == inflight[CHOOSE r \in Slots : inflight[r].order = 2]

\* Two update_task calls on one stored task raced, and nothing else wrote
\* between them.
UpdatesRaced ==
    /\ Raced
    /\ Earlier.op = "update_task" /\ Later.op = "update_task"
    /\ Earlier.id = Later.id
    /\ Stored(Earlier.pre, Earlier.id)
    /\ Later.pre = Earlier.post

\* The record stored for the task after the later call
RecordAfter == LoadTask(Later.post[FileOf(Later.post, Later.id)], Later.now)

\* The stored record has the value the call gave for the field
Carries(record, data, f) ==
    IF f = "content" THEN record.content = Some(Strip(data.content[1]))
    ELSE record[f] = data[f]

\* C22 as stated: two concurrent update_task calls on the same task both
\* complete without conflict, the stored record is what the last writer
\* wrote, and the changes of the other call are lost: the record is the one
\* the last writer would have written had the other call not been made.
C22_LastWriterWinsOtherLost ==
    UpdatesRaced =>
        /\ Earlier.exc = NoExc /\ Later.exc = NoExc
        /\ ~IsNone(Earlier.ret) /\ ~IsNone(Later.ret)
        /\ RecordAfter = Later.ret[1]
        /\ Later.post =
              update_task(Earlier.pre, Later.id, Later.data, Later.now).files

\* C22, amended: two concurrent update_task calls on the same task, with
\* payloads the Task model accepts, run one after the other in either order and
\* both complete without conflict; the stored record is what the later call
\* wrote, and the later call read what the earlier one had written, so the
\* record carries the later call's fields and, for every field the later
\* call does not name, the earlier call's.
C22_LaterUpdateKeepsEarlierFields ==
    UpdatesRaced =>
        /\ Earlier.exc = NoExc /\ Later.exc = NoExc
        /\ ~IsNone(Earlier.ret) /\ ~IsNone(Later.ret)
        /\ RecordAfter = Later.ret[1]
        /\ Later.post =
              update_task(update_task(Earlier.pre, Earlier.id, Earlier.data,
                                      Earlier.now).files,
                          Later.id, Later.data, Later.now).files
        /\ \A f \in DOMAIN Later.data : Carries(RecordAfter, Later.data, f)
        /\ \A f \in DOMAIN Earlier.data \ DOMAIN Later.data :
              Carries(RecordAfter, Earlier.data, f)

\* Two updates that name different fields raced.
C22_Witness ==
    /\ UpdatesRaced
    /\ DOMAIN Earlier.data \cap DOMAIN Later.data = {}
    /\ RecordAfter.title = TitleB
    /\ RecordAfter.position = 2

\* The tasks of the column that both lists name
Common(fs, status, ids1, ids2) ==
    {t \in ColumnIds(fs, status) :
        /\ \E i \in DOMAIN ids1 : ids1[i] = t
        /\ \E i \in DOMAIN ids2 : ids2[i] = t}

\* Two tasks of the set stand at the same position of the column
SharePosition(fs, status, tasks) ==
    \E a, b \in tasks :
        /\ a # b
        /\ fs[get_task_path(a, status)].metadata.position
              = fs[get_task_path(b, status)].metadata.position

\* Two reorder_tasks calls on one column raced, and nothing else wrote
\* between them.
ReordersRaced ==
    /\ Raced
    /\ Earlier.op = "reorder_tasks" /\ Later.op = "reorder_tasks"
    /\ Earlier.data.status = Later.data.status
    /\ Later.pre = Earlier.post

\* Two reorder_tasks calls on one column are scheduled and none has run.
ReordersPending ==
    /\ \A r \in Slots : inflight[r].pc = "received" /\ inflight[r].op = "reorder_tasks"
    /\ \A r, q \in Slots : inflight[r].data.status = inflight[q].data.status

\* C23 as stated: two concurrent reorder_tasks calls on the same column can
\* race: when both are scheduled and name two tasks of the column in
\* common, one of the orders in which they can run ends, after both
\* completed, with two distinct tasks named by both at the same position.
C23_ReordersCanShare ==
    ReordersPending =>
        \A r \in Slots : \A q \in Slots \ {r} :
            LET status == inflight[r].data.status
                common == Common(files, status, inflight[r].data.task_ids,
                                 inflight[q].data.task_ids)
            IN  Cardinality(common) >= 2 =>
                    \E x \in Slots : \E y \in Slots \ {x} :
                        SharePosition(
                            Dispatch(Dispatch(files, inflight[x],
                                              Steady(clock, Reads(inflight[x]))).files,
                                     inflight[y],
                                     Steady(clock, Reads(inflight[y]))).files,
                            status, common)

\* C23, amended: two concurrent reorder_tasks calls on the same column run
\* one after the other; after both completed every task of the column named
\* by both lists stands at its index in the list of the call that ran last,
\* so no two distinct tasks named by both have the same position.
C23_LaterReorderDecides ==
    ReordersRaced =>
        LET status == Later.data.status
            common == Common(Later.post, status, Earlier.data.task_ids,
                             Later.data.task_ids)
        IN  /\ Earlier.ret = TRUE /\ Later.ret = TRUE
            /\ \A t \in common :
                  Later.post[get_task_path(t, status)].metadata.position
                      = LastIndex(Later.data.task_ids, t)
            /\ ~SharePosition(Later.post, status, common)

\* Two reorders of a column of two raced, with the two tasks in opposite
\* orders.
C23_Witness ==
    /\ ReordersRaced
    /\ Len(Earlier.data.task_ids) = 2
    /\ Len(Later.data.task_ids) = 2
    /\ Earlier.data.task_ids # Later.data.task_ids
    /\ Cardinality(Common(Later.post, Later.data.status, Earlier.data.task_ids,
                          Later.data.task_ids)) = 2

\* C27: deletion is permanent under concurrency: once a delete_task(id) has
\* returned True, no file of that id exists in any later state, also when an
\* update, move or reorder naming the id raced with it.
C27_DeletePermanentUnderRace ==
    \A r \in Slots :
        (/\ inflight[r].pc = "done"
         /\ inflight[r].op = "delete_task"
         /\ inflight[r].ret = TRUE) =>
            ~Stored(files, inflight[r].id)

====
